---- MODULE Spec2Model ----
(***************************************************************************)
(* stitch_videos.py: stitch_video_audio inserts narration overlays into a  *)
(* video, and CursorClip.make_frame draws the cursor trail of one overlay. *)
(*                                                                         *)
(* Times are integers in milliseconds: the file names carry milliseconds   *)
(* and the division by 1000.0 at line 57 is the same monotone rescaling of *)
(* every time of the run, the video duration included.                     *)
(*                                                                         *)
(* A string is the sequence of its character codes, so that sorted() is    *)
(* Python's lexicographic order of str.  os.path.join(audio_dir, f) puts   *)
(* one common prefix before every name and os.path.basename removes it     *)
(* again; the prefix changes no comparison and is left out.                *)
(*                                                                         *)
(* A video clip is the view [start, start + duration) of the loaded file.  *)
(* subclip and freeze are the calls of the media engine the import at line *)
(* 13 names (moviepy 1.x, the moviepy.editor API): subclip(t_start, t_end) *)
(* counts a negative time back from the clip's end, raises ValueError when *)
(* t_start is beyond the clip's duration, and does not check t_end.        *)
(***************************************************************************)
EXTENDS Integers, Sequences, FiniteSets, TLC

\* --------------------------------------------------------------- bounds
MaxUnits == 3
MaxAudio == 2
MaxTrajLen == 3
MaxCursorDur == 3

\* Base names of the narration files: decimal millisecond strings, as digits.
BaseNames == { <<0>>, <<1>>, <<2>>, <<3>>, <<0, 2>>, <<1, 0>>, <<1, 9>> }
\* Durations of the video file, in milliseconds.
VideoDurations == { 3, 20 }
\* Trajectory samples (x, y).
Points == { <<10, 10>>, <<20, 10>> }

\* ------------------------------------------------------------- strings
Chars(ds) == [i \in 1..Len(ds) |-> 48 + ds[i]]
ExtWav == <<46, 119, 97, 118>>
ExtJson == <<46, 106, 115, 111, 110>>

\* str.endswith
EndsWith(f, ext) ==
    /\ Len(f) >= Len(ext)
    /\ SubSeq(f, Len(f) - Len(ext) + 1, Len(f)) = ext

\* os.path.splitext(os.path.basename(f))[0]: the name up to its last dot
\* (a dot that starts the name opens no extension).
SplitextBase(f) ==
    LET dots == { i \in 2..Len(f) : f[i] = 46 }
    IN  IF dots = {} THEN f
        ELSE SubSeq(f, 1, (CHOOSE i \in dots : \A j \in dots : j <= i) - 1)

\* int(time_str) of a decimal digit string
RECURSIVE IntOf(_)
IntOf(s) ==
    IF s = <<>> THEN 0
    ELSE 10 * IntOf(SubSeq(s, 1, Len(s) - 1)) + (s[Len(s)] - 48)

\* Python's str order: the first differing character decides, a proper
\* prefix comes first.
StrLess(a, b) ==
    \E k \in 1..Len(b) :
        /\ k <= Len(a) + 1
        /\ \A j \in 1..(k - 1) : a[j] = b[j]
        /\ (k = Len(a) + 1 \/ a[k] < b[k])

\* sorted(S) of a set of distinct strings
RECURSIVE SortedStr(_)
SortedStr(S) ==
    IF S = {} THEN <<>>
    ELSE LET m == CHOOSE x \in S : \A y \in S \ {x} : StrLess(x, y)
         IN  <<m>> \o SortedStr(S \ {m})

\* the listing sorted by the number its base name spells
RECURSIVE SortedNumeric(_)
SortedNumeric(S) ==
    IF S = {} THEN <<>>
    ELSE LET m == CHOOSE x \in S : \A y \in S \ {x} :
                      \/ IntOf(SplitextBase(x)) < IntOf(SplitextBase(y))
                      \/ /\ IntOf(SplitextBase(x)) = IntOf(SplitextBase(y))
                         /\ StrLess(x, y)
         IN  <<m>> \o SortedNumeric(S \ {m})

Range(s) == { s[i] : i \in 1..Len(s) }
Min(a, b) == IF a < b THEN a ELSE b

\* ----------------------------------------------------------- the engine
None == [kind |-> "None"]
Unbound == [kind |-> "Unbound"]
VideoClip(s, d) == [kind |-> "video", start |-> s, duration |-> d]

\* Clip.subclip: a negative t_start or t_end counts back from the end.
FromEnd(c, t) == IF t < 0 THEN c.duration + t ELSE t
SubclipRaises(c, t_start) == FromEnd(c, t_start) > c.duration
Subclip(c, t_start, t_end) ==
    VideoClip(c.start + FromEnd(c, t_start),
              FromEnd(c, t_end) - FromEnd(c, t_start))

\* freeze(clip, t, freeze_duration): before = clip.subclip(0, t), the held
\* frame, after = clip.subclip(t) unless t = clip.duration.
FreezeRaises(c, t) == t # c.duration /\ SubclipRaises(c, t)

VARIABLES
    listdir, videoDuration,
    pc, err,
    audio_files, json_files,
    video, final_clips, insertion_times, insertion_clips,
    clip1, clip2, relative_insertion_times,
    final_video, written,
    trajectory, duration, frame, returned, t_req, prev_frame, markers_drawn,
    requested

stitchVars == << listdir, videoDuration, pc, err, audio_files, json_files,
                 video, final_clips, insertion_times, insertion_clips,
                 clip1, clip2, relative_insertion_times, final_video, written >>
cursorVars == << trajectory, duration, frame, returned, t_req, prev_frame,
                 markers_drawn, requested >>
vars == << stitchVars, cursorVars >>

\* ------------------------------------------------- stitch_video_audio
AudioFilesOf(dir) == SortedStr({ f \in dir : EndsWith(f, ExtWav) })
JsonFilesSortedNumeric(dir) == SortedNumeric({ f \in dir : EndsWith(f, ExtJson) })
JsonFilesOf(dir) == SortedStr({ f \in dir : EndsWith(f, ExtJson) })

NamesMatchByCount(a, j) == Len(a) = Len(j)
NamesMatch(a, j) ==
    { SplitextBase(f) : f \in Range(a) } = { SplitextBase(f) : f \in Range(j) }

DirOf(W, J) ==
    { Chars(b) \o ExtWav : b \in W } \cup { Chars(b) \o ExtJson : b \in J }

StitchInit ==
    /\ \E W \in SUBSET BaseNames, J \in SUBSET BaseNames :
          /\ Cardinality(W) <= MaxUnits
          /\ Cardinality(J) <= MaxUnits
          /\ listdir = DirOf(W, J)
    /\ videoDuration \in VideoDurations
    /\ pc = "list"
    /\ err = "none"
    /\ audio_files = <<>>
    /\ json_files = <<>>
    /\ video = Unbound
    /\ final_clips = <<>>
    /\ insertion_times = <<>>
    /\ insertion_clips = <<>>
    /\ clip1 = Unbound
    /\ clip2 = Unbound
    /\ relative_insertion_times = <<>>
    /\ final_video = Unbound
    /\ written = FALSE

CursorIdle ==
    /\ trajectory = <<>>
    /\ duration = 0
    /\ frame = {}
    /\ t_req = 0
    /\ prev_frame = {}
    /\ returned = {}
    /\ markers_drawn = {}
    /\ requested = FALSE

Init == StitchInit /\ CursorIdle

\* lines 40-45: list, sort, assert the base names match
ListAndValidate ==
    /\ pc = "list"
    /\ audio_files' = AudioFilesOf(listdir)
    /\ json_files' = JsonFilesOf(listdir)
    /\ IF NamesMatch(audio_files', json_files')
       THEN pc' = "load" /\ err' = err
       ELSE pc' = "error" /\ err' = "AssertionError"
    /\ UNCHANGED << listdir, videoDuration, video, final_clips, insertion_times,
                    insertion_clips, clip1, clip2, relative_insertion_times,
                    final_video, written, cursorVars >>

\* lines 48-52
LoadVideo ==
    /\ pc = "load"
    /\ video' = VideoClip(0, videoDuration)
    /\ final_clips' = <<>>
    /\ insertion_times' = <<>>
    /\ insertion_clips' = <<>>
    /\ pc' = "plan"
    /\ UNCHANGED << listdir, videoDuration, err, audio_files, json_files,
                    clip1, clip2, relative_insertion_times, final_video,
                    written, cursorVars >>

\* line 82: the CursorClip of one unit with its audio set
CursorClipOf(json_file, audio_file, audio_duration, insertion_time) ==
    [kind |-> "cursor", trajectory |-> json_file, audio |-> audio_file,
     duration |-> audio_duration, frame_at |-> insertion_time]

\* lines 54-83: one iteration of the loop over zip(audio_files, json_files)
PlanUnit ==
    /\ pc = "plan"
    /\ Len(insertion_times) < Min(Len(audio_files), Len(json_files))
    /\ LET k == Len(insertion_times) + 1
           audio_file == audio_files[k]
           json_file == json_files[k]
           insertion_time == IntOf(SplitextBase(audio_file))
           c1 == IF insertion_time < video.duration
                 THEN Subclip(video, 0, insertion_time)
                 ELSE video
           c2 == IF insertion_time < video.duration
                 THEN Subclip(video, insertion_time, video.duration)
                 ELSE None
       IN  /\ clip1' = c1
           /\ clip2' = c2
           /\ \E audio_duration \in 1..MaxAudio :
                 IF FreezeRaises(c1, insertion_time)
                 THEN /\ pc' = "error"
                      /\ err' = "ValueError"
                      /\ UNCHANGED << insertion_clips, insertion_times >>
                 ELSE /\ insertion_clips' = Append(insertion_clips,
                             CursorClipOf(json_file, audio_file,
                                          audio_duration, insertion_time))
                      /\ insertion_times' = Append(insertion_times, insertion_time)
                      /\ UNCHANGED << pc, err >>
    /\ UNCHANGED << listdir, videoDuration, audio_files, json_files, video,
                    final_clips, relative_insertion_times, final_video,
                    written, cursorVars >>

\* line 87
RelativeTimes(times) ==
    <<0>> \o [i \in 1..(Len(times) - 1) |-> times[i + 1] - times[i]]

Retime ==
    /\ pc = "plan"
    /\ Len(insertion_times) = Min(Len(audio_files), Len(json_files))
    /\ relative_insertion_times' = RelativeTimes(insertion_times)
    /\ pc' = "assemble"
    /\ UNCHANGED << listdir, videoDuration, err, audio_files, json_files, video,
                    final_clips, insertion_times, insertion_clips, clip1, clip2,
                    final_video, written, cursorVars >>

\* line 93: the remaining tail becomes the video of the next iteration
NextVideoKept(v, c2) == v
NextVideo(v, c2) == c2

\* line 89: the head of the remaining video, up to the cut
HeadOf(v, relative_insert_time) == Subclip(v, 0, relative_insert_time)

\* line 90: the tail, from the cut to the end of the remaining video
TailOfFullDuration(v, relative_insert_time) ==
    Subclip(v, relative_insert_time, videoDuration)
TailOf(v, relative_insert_time) ==
    Subclip(v, relative_insert_time, v.duration)

\* the iterations lines 88-93 have run so far
Assembled == Len(final_clips) \div 2

\* lines 88-93: one iteration of the loop over
\* zip(relative_insertion_times, insertion_clips)
AssembleStep ==
    /\ pc = "assemble"
    /\ Assembled < Min(Len(relative_insertion_times), Len(insertion_clips))
    /\ LET k == Assembled + 1
           relative_insert_time == relative_insertion_times[k]
           insertion_clip == insertion_clips[k]
           c1 == HeadOf(video, relative_insert_time)
           c2 == TailOf(video, relative_insert_time)
       IN  /\ clip1' = c1
           /\ IF SubclipRaises(video, relative_insert_time)
              THEN /\ pc' = "error"
                   /\ err' = "ValueError"
                   /\ UNCHANGED << clip2, final_clips, video >>
              ELSE /\ clip2' = c2
                   /\ final_clips' = final_clips \o << c1, insertion_clip >>
                   /\ video' = NextVideo(video, c2)
                   /\ UNCHANGED << pc, err >>
    /\ UNCHANGED << listdir, videoDuration, audio_files, json_files,
                    insertion_times, insertion_clips, relative_insertion_times,
                    final_video, written, cursorVars >>

\* line 94: clip2 is a local that only the two loops bind
AppendTail ==
    /\ pc = "assemble"
    /\ Assembled = Min(Len(relative_insertion_times), Len(insertion_clips))
    /\ IF clip2 = Unbound
       THEN /\ pc' = "error"
            /\ err' = "UnboundLocalError"
            /\ UNCHANGED final_clips
       ELSE /\ pc' = "concatenate"
            /\ err' = err
            /\ final_clips' = Append(final_clips, clip2)
    /\ UNCHANGED << listdir, videoDuration, audio_files, json_files, video,
                    insertion_times, insertion_clips, clip1, clip2,
                    relative_insertion_times, final_video, written, cursorVars >>

RECURSIVE TotalDuration(_)
TotalDuration(clips) ==
    IF clips = <<>> THEN 0
    ELSE clips[1].duration + TotalDuration(Tail(clips))

\* lines 97-98
ConcatenateAndWrite ==
    /\ pc = "concatenate"
    /\ final_video' = [kind |-> "concatenation", duration |-> TotalDuration(final_clips)]
    /\ written' = TRUE
    /\ pc' = "done"
    /\ UNCHANGED << listdir, videoDuration, err, audio_files, json_files, video,
                    final_clips, insertion_times, insertion_clips, clip1, clip2,
                    relative_insertion_times, cursorVars >>

Next ==
    \/ ListAndValidate
    \/ LoadVideo
    \/ PlanUnit
    \/ Retime
    \/ AssembleStep
    \/ AppendTail
    \/ ConcatenateAndWrite

Spec == Init /\ [][Next]_vars

\* ------------------------------------------------------------ CursorClip
MarkerRadius == 5

\* line 32: the ellipse drawn around a sample
Marker(p) ==
    << p[1] - MarkerRadius, p[2] - MarkerRadius,
       p[1] + MarkerRadius, p[2] + MarkerRadius >>

\* line 22: duration / len(trajectory), kept as an exact fraction
CursorDuration(d, traj) == [num |-> d, den |-> Len(traj)]

\* line 26: int(t / self.cursor_duration), for t >= 0
SampleIndex(t, cd) == (t * cd.den) \div cd.num

\* lines 31-32: the draw goes onto self.frame, the buffer every call shares
DrawOnFresh(buffer, marker) == {marker}
DrawOn(buffer, marker) == buffer \cup {marker}

Trajectories ==
    UNION { [1..n -> Points] : n \in 1..MaxTrajLen }

StitchIdle ==
    /\ listdir = {}
    /\ videoDuration = 0
    /\ pc = "cursor"
    /\ err = "none"
    /\ audio_files = <<>>
    /\ json_files = <<>>
    /\ video = Unbound
    /\ final_clips = <<>>
    /\ insertion_times = <<>>
    /\ insertion_clips = <<>>
    /\ clip1 = Unbound
    /\ clip2 = Unbound
    /\ relative_insertion_times = <<>>
    /\ final_video = Unbound
    /\ written = FALSE

\* lines 20-23: the clip as constructed, the buffer holding the bare frame
CursorInit ==
    /\ StitchIdle
    /\ trajectory \in Trajectories
    /\ duration \in 1..MaxCursorDur
    /\ frame = {}
    /\ t_req = 0
    /\ prev_frame = {}
    /\ returned = {}
    /\ markers_drawn = {}
    /\ requested = FALSE

\* lines 25-34: one frame request at time t
MakeFrame(t) ==
    LET i == SampleIndex(t, CursorDuration(duration, trajectory))
    IN  /\ frame' = IF i < Len(trajectory)
                    THEN DrawOn(frame, Marker(trajectory[i + 1]))
                    ELSE frame
        /\ returned' = frame'
        /\ t_req' = t
        /\ prev_frame' = frame
        /\ markers_drawn' = IF i < Len(trajectory)
                            THEN markers_drawn \cup {Marker(trajectory[i + 1])}
                            ELSE markers_drawn
        /\ requested' = TRUE
        /\ UNCHANGED << trajectory, duration, stitchVars >>

CursorNext == \E t \in 0..(MaxCursorDur + 1) : MakeFrame(t)

SpecCursor == CursorInit /\ [][CursorNext]_vars

\* ----------------------------------------------------------- properties
Terminal == pc \in {"done", "error"}
Units == Len(insertion_times)
BaseSegments(clips) == SelectSeq(clips, LAMBDA c : c.kind = "video")
NonDecreasing(times) ==
    \A i \in 1..Len(times), j \in 1..Len(times) : i < j => times[i] <= times[j]
StrictlyAscending(times) ==
    \A i \in 1..Len(times), j \in 1..Len(times) : i < j => times[i] < times[j]
AllBelow(times, d) == \A i \in 1..Len(times) : times[i] < d
WavBases == { SplitextBase(f) : f \in { g \in listdir : EndsWith(g, ExtWav) } }
JsonBases == { SplitextBase(f) : f \in { g \in listdir : EndsWith(g, ExtJson) } }

\* base [0,t1), overlay 1, base [t1,t2), ..., overlay n, base [tn,D)
ExpectedTimeline(times, overlays, d) ==
    [p \in 1..(2 * Len(times) + 1) |->
        LET i == (p + 1) \div 2
            from == IF i = 1 THEN 0 ELSE times[i - 1]
            to == IF i > Len(times) THEN d ELSE times[i]
        IN  IF p % 2 = 1 THEN VideoClip(from, to - from) ELSE overlays[i]]

\* C1: with n >= 1 units at t1 < ... < tn, all below the video duration D,
\* the final clip sequence is base [0,t1), overlay 1, base [t1,t2), ...,
\* overlay n, base [tn,D).
C1_TimelineAtInsertionPoints ==
    (pc = "done" /\ Units >= 1 /\ StrictlyAscending(insertion_times)
        /\ AllBelow(insertion_times, videoDuration))
    => final_clips = ExpectedTimeline(insertion_times, insertion_clips, videoDuration)

\* C2: when every insertion time is below the video duration, the durations
\* of the clips of final_clips add up to the video duration plus the audio
\* durations of the units.
C2_DurationConservation ==
    (pc = "done" /\ AllBelow(insertion_times, videoDuration))
    => /\ TotalDuration(final_clips)
            = videoDuration + TotalDuration(insertion_clips)
       /\ final_video.duration = videoDuration + TotalDuration(insertion_clips)

C2_Witness ==
    /\ pc = "done"
    /\ Units >= 2
    /\ AllBelow(insertion_times, videoDuration)
    /\ relative_insertion_times[2] > 0

\* the base segments are contiguous from 0, none of negative length
Contiguous(segs) ==
    /\ \A i \in 1..Len(segs) : segs[i].duration >= 0
    /\ Len(segs) >= 1 => segs[1].start = 0
    /\ \A i \in 1..(Len(segs) - 1) :
          segs[i + 1].start = segs[i].start + segs[i].duration

EndOf(segs) ==
    IF segs = <<>> THEN 0 ELSE segs[Len(segs)].start + segs[Len(segs)].duration

\* C3: with n >= 1 units processed in ascending time order, all below the
\* video duration: during the assembly loop the base segments appended so far
\* are contiguous from 0, the remaining tail starts where they end (so it
\* never moves backwards) and ends at D; after the loop the base segments of
\* final_clips are contiguous and cover [0, D) exactly once.
C3_ContentPreserved ==
    (Units >= 1 /\ NonDecreasing(insertion_times)
        /\ AllBelow(insertion_times, videoDuration))
    => LET segs == BaseSegments(final_clips)
       IN  /\ pc = "assemble"
               => /\ Contiguous(segs)
                  /\ video.start = EndOf(segs)
                  /\ video.duration >= 0
                  /\ video.start + video.duration = videoDuration
           /\ pc \in {"concatenate", "done"}
               => /\ Contiguous(segs)
                  /\ Len(segs) = Units + 1
                  /\ EndOf(segs) = videoDuration

C3_Witness ==
    /\ pc = "done"
    /\ Units = 3
    /\ NonDecreasing(insertion_times)
    /\ AllBelow(insertion_times, videoDuration)
    /\ relative_insertion_times[2] > 0
    /\ relative_insertion_times[3] > 0

\* C4: when a unit's insertion time is >= the video duration, the run still
\* completes, that unit's overlay comes after all of the base video's content
\* and the base segments cover [0, D).
C4_LateUnitAppended ==
    (Terminal /\ err # "AssertionError"
        /\ \E f \in Range(audio_files) : IntOf(SplitextBase(f)) >= videoDuration)
    => /\ pc = "done"
       /\ \A p \in 1..Len(final_clips) :
             (final_clips[p].kind = "cursor"
                 /\ final_clips[p].frame_at >= videoDuration)
             => \A q \in (p + 1)..Len(final_clips) :
                   final_clips[q].kind = "video" => final_clips[q].duration = 0
       /\ Contiguous(BaseSegments(final_clips))
       /\ EndOf(BaseSegments(final_clips)) = videoDuration

\* C5: when the base names of the .wav files and of the .json files differ,
\* the run aborts at the assertion with the video not loaded, no clip built
\* and nothing written; when they are equal the assertion does not abort.
C5_MatchingValidation ==
    pc # "list"
    => /\ WavBases # JsonBases
           => /\ pc = "error"
              /\ err = "AssertionError"
              /\ video = Unbound
              /\ clip1 = Unbound
              /\ insertion_clips = <<>>
              /\ final_clips = <<>>
              /\ final_video = Unbound
              /\ ~written
       /\ WavBases = JsonBases => err # "AssertionError"

C5_Witness ==
    /\ pc = "error"
    /\ err = "AssertionError"
    /\ Len(audio_files) = 2
    /\ Len(json_files) = 2

\* no base name of the directory has a leading zero
PlainNames ==
    \A f \in listdir : Len(SplitextBase(f)) > 1 => SplitextBase(f)[1] # 48

\* C7: for base names that are decimal millisecond strings, of whatever
\* lengths, the list insertion_times is non-decreasing.
C7_InsertionTimesSorted == PlainNames => NonDecreasing(insertion_times)

\* C8: after the loop the last element of final_clips is the remaining tail,
\* and with no narration unit the run completes with the full video alone.
C8_TailAppended ==
    /\ pc \in {"concatenate", "done"} => final_clips[Len(final_clips)] = video
    /\ (Terminal /\ err # "AssertionError" /\ audio_files = <<>>)
       => /\ pc = "done"
          /\ final_clips = << VideoClip(0, videoDuration) >>

\* C9: an iteration of the assembly loop whose relative cut time is outside
\* [0, duration of the remaining tail] ends the run in error, with nothing
\* appended and nothing written.
C9_BadCutIsFatal ==
    [][ (/\ pc = "assemble"
         /\ Assembled < Min(Len(relative_insertion_times), Len(insertion_clips))
         /\ \/ relative_insertion_times[Assembled + 1] < 0
            \/ relative_insertion_times[Assembled + 1] > video.duration)
        => (pc' = "error" /\ final_clips' = final_clips /\ ~written') ]_vars

\* C10: past the assertion, the zipped audio and json files have the same
\* base name pairwise, and every overlay clip holds the trajectory and the
\* audio of one unit and that unit's insertion time.
C10_PairingCorrect ==
    (pc # "list" /\ err # "AssertionError")
    => /\ Len(audio_files) = Len(json_files)
       /\ \A i \in 1..Len(audio_files) :
             SplitextBase(audio_files[i]) = SplitextBase(json_files[i])
       /\ \A i \in 1..Len(insertion_clips) :
             /\ SplitextBase(insertion_clips[i].audio)
                    = SplitextBase(insertion_clips[i].trajectory)
             /\ insertion_times[i]
                    = IntOf(SplitextBase(insertion_clips[i].trajectory))
             /\ insertion_clips[i].frame_at = insertion_times[i]

C10_Witness ==
    /\ pc = "done"
    /\ Units = 3
    /\ insertion_times[1] > insertion_times[2]

\* sample i is active over [i * D / L, (i + 1) * D / L)
ActiveSamples(t, d, traj) ==
    { i \in 0..(Len(traj) - 1) :
        i * d <= t * Len(traj) /\ t * Len(traj) < (i + 1) * d }

\* C6: a frame request at t draws the marker of sample i exactly when t is in
\* [i * D / L, (i + 1) * D / L) and leaves the buffer unchanged past the last
\* sample; the returned frame is the buffer, and every marker drawn by an
\* earlier request is still in it.
C6_FrameProducer ==
    requested
    => /\ frame = prev_frame
                    \cup { Marker(trajectory[i + 1]) :
                             i \in ActiveSamples(t_req, duration, trajectory) }
       /\ t_req >= duration => frame = prev_frame
       /\ returned = frame
       /\ markers_drawn \subseteq returned

C6_Witness ==
    /\ requested
    /\ t_req >= duration
    /\ Cardinality(markers_drawn) = 2
    /\ Cardinality(returned) = 2

====
